---- MODULE Spec2Model ----
(***************************************************************************)
(* A model of pwnypack/bytecode.py: disassemble, assemble,                 *)
(* blocks_from_ops and calculate_max_stack_depth.                          *)
(*                                                                         *)
(* Byte strings are kept run-length encoded: a string is a sequence of     *)
(* chunks [b |-> byte, n |-> count].  Likewise an element of a symbolic    *)
(* sequence carries a repetition count n: [type |-> "Op", name |-> "NOP",  *)
(* n |-> 65536] stands for 65536 consecutive Op('NOP') elements.  Only     *)
(* argument-less ops are ever repeated, and the loops of the program treat *)
(* every one of the n copies alike, so one step of the model performs the  *)
(* n iterations at once.  This keeps the real 16-bit limits of the code    *)
(* (65535, 65536, >> 16) within reach of the model checker.                *)
(***************************************************************************)
EXTENDS Integers, Sequences, FiniteSets, TLC

VARIABLES
    code,           \* disassemble: the raw bytes given to it
    ci,             \* disassemble: position of code_iter (index of the next chunk)
    op_addr,        \* disassemble: address of the next byte code_iter yields
    ext_arg,        \* disassemble: pending extended argument
    addr_labels,    \* disassemble: target address -> Label
    addr_ops,       \* disassemble: list of (op_addr, op)
    ops,            \* the symbolic sequence (list of Op and Label)
    i,              \* assemble: position of "for op in ops"
    address,        \* assemble: address counter of the current pass
    output,         \* assemble: bytes emitted in the current pass
    label_address,  \* assemble: Label -> address
    retry,          \* assemble: the retry flag
    passes,         \* assemble: number of the current pass (history)
    steps,          \* assemble: (address, len(output)) before each element of the current pass (history)
    encoded,        \* assemble: the (op_code, op_arg) pairs handed to encode_op by the last step (history)
    error,          \* the exception raised, "" when none
    traits,         \* calculate_max_stack_depth: py_internals['stackeffect_traits']
    blocks,         \* calculate_max_stack_depth: the blocks, in the order of their creation
    seen,           \* calculate_max_stack_depth: block.seen per block
    startdepth,     \* calculate_max_stack_depth: block.startdepth per block
    stack,          \* calculate_max_stack_depth: the activations of walk
    max_depth,      \* calculate_max_stack_depth: max_depth as threaded through walk
    pc              \* control position

disVars  == <<code, ci, op_addr, ext_arg, addr_labels, addr_ops>>
asmVars  == <<i, address, output, label_address, retry, passes, steps, encoded>>
walkVars == <<traits, blocks, seen, startdepth, stack, max_depth>>
vars     == <<code, ci, op_addr, ext_arg, addr_labels, addr_ops, ops, i, address,
              output, label_address, retry, passes, steps, encoded, error,
              traits, blocks, seen, startdepth, stack, max_depth, pc>>

(***************************************************************************)
(* Bounds of the model.                                                    *)
(***************************************************************************)
MaxOps == 4          \* longest symbolic sequence given to assemble
MaxInstr == 4        \* most instructions in a byte string given to disassemble
MaxDepthOps == 4     \* longest symbolic sequence given to calculate_max_stack_depth
Labels == {1, 2}     \* Label objects a caller composes sequences from
PadSizes == {65530, 65533, 65536}   \* lengths of the NOP runs given to assemble
CodeRuns == {1, 65536}              \* lengths of the NOP runs given to disassemble
DepthLabels == {1}                  \* Label objects given to calculate_max_stack_depth

(***************************************************************************)
(* The instruction-set descriptor (pwnypack.py_internals.PY_INTERNALS).    *)
(***************************************************************************)
py_internals ==
    [ opmap |-> [ POP_TOP |-> 1, NOP |-> 9, BUILD_TUPLE |-> 102, FOR_ITER |-> 93,
                  LOAD_CONST |-> 100, JUMP_FORWARD |-> 110,
                  JUMP_IF_TRUE_OR_POP |-> 112, JUMP_ABSOLUTE |-> 113,
                  POP_JUMP_IF_FALSE |-> 114, SETUP_FINALLY |-> 122,
                  EXTENDED_ARG |-> 144 ],
      hasjrel |-> {93, 110, 122},
      hasjabs |-> {112, 113, 114},
      have_argument |-> 90,
      extended_arg |-> 144,
      stackeffect |->
          [ POP_TOP |-> [callable |-> FALSE, val |-> -1],
            NOP |-> [callable |-> FALSE, val |-> 0],
            BUILD_TUPLE |-> [callable |-> TRUE, val |-> 1],    \* lambda arg: 1 - arg
            FOR_ITER |-> [callable |-> FALSE, val |-> 1],
            LOAD_CONST |-> [callable |-> FALSE, val |-> 1],
            JUMP_FORWARD |-> [callable |-> FALSE, val |-> 0],
            JUMP_IF_TRUE_OR_POP |-> [callable |-> FALSE, val |-> 0],
            JUMP_ABSOLUTE |-> [callable |-> FALSE, val |-> 0],
            POP_JUMP_IF_FALSE |-> [callable |-> FALSE, val |-> -1],
            SETUP_FINALLY |-> [callable |-> FALSE, val |-> 0],
            EXTENDED_ARG |-> [callable |-> FALSE, val |-> 0] ] ]

opmap == py_internals.opmap
hasjrel == py_internals.hasjrel
hasjabs == py_internals.hasjabs
hasjump == hasjrel \cup hasjabs
have_argument == py_internals.have_argument
extended_arg == py_internals.extended_arg
stackeffect == py_internals.stackeffect

opname(op_code) == CHOOSE name \in DOMAIN opmap : opmap[name] = op_code

(***************************************************************************)
(* Op and Label.                                                           *)
(***************************************************************************)
NoArg == [kind |-> "none", val |-> 0]
IntArg(v) == [kind |-> "int", val |-> v]
LabelArg(l) == [kind |-> "label", val |-> l]

Label(l) == [type |-> "Label", id |-> l]
Op(name, arg) == [type |-> "Op", name |-> name, arg |-> arg, n |-> 1]
Run(name, n) == [type |-> "Op", name |-> name, arg |-> NoArg, n |-> n]

IsLabel(e) == e.type = "Label"

\* "label in ops"
InOps(l, seq) == \E p \in 1..Len(seq) : IsLabel(seq[p]) /\ seq[p].id = l

(***************************************************************************)
(* Byte strings.                                                           *)
(***************************************************************************)
Byte(b) == [b |-> b, n |-> 1]

RECURSIVE ByteLen(_)
ByteLen(bytes) ==
    IF bytes = <<>> THEN 0 ELSE bytes[1].n + ByteLen(Tail(bytes))

\* The canonical run-length form: equal neighbours merged.
RECURSIVE Canon(_)
Canon(bytes) ==
    IF Len(bytes) <= 1 THEN bytes
    ELSE LET rest == Canon(Tail(bytes))
         IN  IF rest[1].b = bytes[1].b
             THEN <<[b |-> bytes[1].b, n |-> bytes[1].n + rest[1].n]>> \o Tail(rest)
             ELSE <<bytes[1]>> \o rest

\* Equality of the byte strings two chunk sequences stand for.
SameBytes(x, y) == Canon(x) = Canon(y)

\* The byte at offset k (from 0) of a byte string.
RECURSIVE ByteAt(_, _)
ByteAt(bytes, k) ==
    IF k < bytes[1].n THEN bytes[1].b ELSE ByteAt(Tail(bytes), k - bytes[1].n)

(***************************************************************************)
(* assemble                                                                *)
(***************************************************************************)
\* six.int2byte accepts 0..255 only
int2byte_ok(x) == x \in 0..255

\* encode_op raises when int2byte does: op_arg & 255 is always a byte,
\* op_arg >> 8 is one only for op_arg in 0..65535.
encode_op_raises(op_code, op_arg) ==
    /\ op_arg.kind # "none"
    /\ ~int2byte_ok(op_arg.val \div 256)

encode_op(op_code, op_arg) ==
    IF op_arg.kind = "none"
    THEN <<Byte(op_code)>>
    ELSE <<Byte(op_code), Byte(op_arg.val % 256), Byte(op_arg.val \div 256)>>

\* line 192: label_address.get(op) != address
LabelMovedOnlyIfUnknown(la, l, addr) == l \notin DOMAIN la
LabelMoved(la, l, addr) == l \notin DOMAIN la \/ la[l] # addr

\* lines 227-231: the size assumed for a jump whose label has not materialized
UnresolvedSizeAlwaysSix(op_code, addr) == 6
UnresolvedSize(op_code, addr) ==
    IF op_code \in hasjabs /\ addr > 65535 THEN 6 ELSE 3

\* The sanity checks of lines 200-221 and 237-239, in the order of the code:
\* the message of the ValueError raised for op, "" when none is.
SanityErrorNoMembership(op, seq) ==
    LET op_code == opmap[op.name] IN
    IF op.arg.kind = "none"
    THEN IF op_code >= have_argument THEN "requires argument" ELSE ""
    ELSE IF op_code < have_argument THEN "should not have an argument"
    ELSE IF op.arg.kind = "label"
         THEN IF op_code \notin hasjump THEN "did not expect label" ELSE ""
         ELSE IF op_code \in hasjump THEN "expected label" ELSE ""
SanityError(op, seq) ==
    LET op_code == opmap[op.name] IN
    IF op.arg.kind = "none"
    THEN IF op_code >= have_argument THEN "requires argument" ELSE ""
    ELSE IF op_code < have_argument THEN "should not have an argument"
    ELSE IF op.arg.kind = "label"
         THEN IF op_code \notin hasjump THEN "did not expect label"
              ELSE IF ~InOps(op.arg.val, seq) THEN "label is not part of this op list"
              ELSE ""
         ELSE IF op_code \in hasjump THEN "expected label" ELSE ""

\* lines 224 and 234-236: the argument of an op whose label has materialized
\* (or that has a plain integer argument)
ResolvedArg(op, la, addr) ==
    IF op.arg.kind = "label"
    THEN IF opmap[op.name] \in hasjrel
         THEN la[op.arg.val] - (addr + 3)
         ELSE la[op.arg.val]
    ELSE op.arg.val

\* lines 241-250: the calls of encode_op for a resolved argument
EncodeCalls(op_code, op_arg) ==
    IF op_arg >= 65536
    THEN << <<extended_arg, IntArg(op_arg \div 65536)>>,
            <<op_code, IntArg(op_arg % 65536)>> >>
    ELSE << <<op_code, IntArg(op_arg)>> >>

\* Every op passes the sanity checks of assemble.
StructurallyValid(seq) ==
    \A p \in 1..Len(seq) : IsLabel(seq[p]) \/ SanityError(seq[p], seq) = ""

Current == ops[i]
InLoop == pc = "assemble" /\ i <= Len(ops)
Visit == Append(steps, <<address, ByteLen(output)>>)

\* lines 191-195
AsmLabel ==
    /\ InLoop /\ IsLabel(Current)
    /\ IF LabelMoved(label_address, Current.id, address)
       THEN /\ retry' = TRUE
            /\ label_address' =
                   [l \in DOMAIN label_address \cup {Current.id} |->
                        IF l = Current.id THEN address ELSE label_address[l]]
       ELSE UNCHANGED <<retry, label_address>>
    /\ i' = i + 1
    /\ steps' = Visit
    /\ encoded' = <<>>
    /\ UNCHANGED <<address, output, passes, error, ops, pc>>
    /\ UNCHANGED disVars /\ UNCHANGED walkVars

\* lines 200-208: a single-byte opcode (n of them for a run)
AsmNoArg ==
    /\ InLoop /\ ~IsLabel(Current)
    /\ SanityError(Current, ops) = ""
    /\ Current.arg.kind = "none"
    /\ output' = Append(output, [b |-> opmap[Current.name], n |-> Current.n])
    /\ address' = address + Current.n
    /\ i' = i + 1
    /\ steps' = Visit
    /\ encoded' = << <<opmap[Current.name], NoArg>> >>
    /\ UNCHANGED <<label_address, retry, passes, error, ops, pc>>
    /\ UNCHANGED disVars /\ UNCHANGED walkVars

\* lines 224-232: the label has not materialized yet
AsmUnresolved ==
    /\ InLoop /\ ~IsLabel(Current)
    /\ SanityError(Current, ops) = ""
    /\ Current.arg.kind = "label"
    /\ Current.arg.val \notin DOMAIN label_address
    /\ address' = address + UnresolvedSize(opmap[Current.name], address)
    /\ i' = i + 1
    /\ steps' = Visit
    /\ encoded' = <<>>
    /\ UNCHANGED <<output, label_address, retry, passes, error, ops, pc>>
    /\ UNCHANGED disVars /\ UNCHANGED walkVars

Resolved ==
    /\ InLoop /\ ~IsLabel(Current)
    /\ SanityError(Current, ops) = ""
    /\ Current.arg.kind # "none"
    /\ Current.arg.kind = "label" => Current.arg.val \in DOMAIN label_address

\* lines 234-250: encode the op, with an EXTENDED_ARG first when it needs one
AsmEncode ==
    /\ Resolved
    /\ LET calls == EncodeCalls(opmap[Current.name],
                                ResolvedArg(Current, label_address, address))
       IN  /\ \A k \in 1..Len(calls) : ~encode_op_raises(calls[k][1], calls[k][2])
           /\ output' = IF Len(calls) = 2
                        THEN output \o encode_op(calls[1][1], calls[1][2])
                                    \o encode_op(calls[2][1], calls[2][2])
                        ELSE output \o encode_op(calls[1][1], calls[1][2])
           /\ address' = address + 3 * Len(calls)
           /\ encoded' = calls
    /\ i' = i + 1
    /\ steps' = Visit
    /\ UNCHANGED <<label_address, retry, passes, error, ops, pc>>
    /\ UNCHANGED disVars /\ UNCHANGED walkVars

\* lines 203, 212, 217, 221, 239: a sanity check raises ValueError;
\* lines 243, 249: int2byte raises inside encode_op
AsmRaise ==
    /\ InLoop /\ ~IsLabel(Current)
    /\ IF SanityError(Current, ops) # ""
       THEN /\ error' = SanityError(Current, ops)
            /\ encoded' = <<>>
       ELSE /\ Resolved
            /\ LET calls == EncodeCalls(opmap[Current.name],
                                        ResolvedArg(Current, label_address, address))
               IN  /\ encode_op_raises(calls[1][1], calls[1][2])
                   /\ encoded' = <<calls[1]>>
            /\ error' = "int2byte"
    /\ pc' = "raised"
    /\ steps' = Visit
    /\ UNCHANGED <<i, address, output, label_address, retry, passes, ops>>
    /\ UNCHANGED disVars /\ UNCHANGED walkVars

\* lines 186-189: the for loop is over and retry is set: another pass
AsmNextPass ==
    /\ pc = "assemble" /\ i > Len(ops) /\ retry
    /\ retry' = FALSE
    /\ output' = <<>>
    /\ address' = 0
    /\ i' = 1
    /\ passes' = passes + 1
    /\ steps' = <<>>
    /\ encoded' = <<>>
    /\ UNCHANGED <<label_address, error, ops, pc>>
    /\ UNCHANGED disVars /\ UNCHANGED walkVars

\* lines 186, 252: the for loop is over and retry is clear: return output
AsmReturn ==
    /\ pc = "assemble" /\ i > Len(ops) /\ ~retry
    /\ pc' = "returned"
    /\ encoded' = <<>>
    /\ UNCHANGED <<i, address, output, label_address, retry, passes, steps, error, ops>>
    /\ UNCHANGED disVars /\ UNCHANGED walkVars

NextAsm ==
    \/ AsmLabel
    \/ AsmNoArg
    \/ AsmUnresolved
    \/ AsmEncode
    \/ AsmRaise
    \/ AsmNextPass
    \/ AsmReturn

\* The state of assemble on entry to its first pass (lines 183-189).
AsmEntry ==
    /\ i = 1 /\ address = 0 /\ output = <<>>
    /\ label_address = <<>> /\ retry = FALSE
    /\ passes = 1 /\ steps = <<>> /\ encoded = <<>>

DisIdle ==
    /\ code = <<>> /\ ci = 1 /\ op_addr = 0 /\ ext_arg = 0
    /\ addr_labels = <<>> /\ addr_ops = <<>>

WalkIdle ==
    /\ traits = 0 /\ blocks = <<>> /\ seen = <<>> /\ startdepth = <<>>
    /\ stack = <<>> /\ max_depth = 0

\* The elements a caller composes a sequence from: labels, NOP runs, jumps
\* to a label, a LOAD_CONST that needs an EXTENDED_ARG, and the ill-formed
\* ops of lines 203, 212, 217 and 239.
AsmElems ==
    {Label(l) : l \in Labels}
        \cup {Run("NOP", n) : n \in PadSizes}
        \cup {Op(name, LabelArg(l)) : name \in {"JUMP_FORWARD", "JUMP_ABSOLUTE"}, l \in Labels}
        \cup {Op("LOAD_CONST", IntArg(65543))}
        \cup {Op("LOAD_CONST", NoArg), Op("NOP", IntArg(1)),
              Op("LOAD_CONST", LabelArg(1)), Op("JUMP_ABSOLUTE", IntArg(3))}

RECURSIVE SeqsUpTo(_, _)
SeqsUpTo(S, n) ==
    IF n = 0 THEN {<<>>}
    ELSE LET shorter == SeqsUpTo(S, n - 1)
         IN  shorter \cup {Append(s, e) : s \in shorter, e \in S}

\* No Label object is put into a sequence twice.
LabelsOnce(seq) ==
    \A p, q \in 1..Len(seq) :
        (IsLabel(seq[p]) /\ IsLabel(seq[q]) /\ seq[p].id = seq[q].id) => p = q

InitAsm ==
    /\ ops \in {s \in SeqsUpTo(AsmElems, MaxOps) : LabelsOnce(s)}
    /\ pc = "assemble"
    /\ error = ""
    /\ AsmEntry /\ DisIdle /\ WalkIdle

SpecAsm == InitAsm /\ [][NextAsm]_vars

(***************************************************************************)
(* disassemble                                                             *)
(***************************************************************************)
NoneOp == [type |-> "None"]

\* The bytes left, from address a on, in the run that holds address a.
RECURSIVE RunLeft(_, _)
RunLeft(bytes, a) ==
    IF a < bytes[1].n THEN bytes[1].n - a ELSE RunLeft(Tail(bytes), a - bytes[1].n)

\* line 118: addr_labels.setdefault(arg, Label()); a new Label is the next
\* object, named by its number.
SetDefaultOverwrite(al, arg) ==
    [a \in DOMAIN al \cup {arg} |->
        IF a = arg THEN Cardinality({al[x] : x \in DOMAIN al}) + 1 ELSE al[a]]
SetDefault(al, arg) ==
    IF arg \in DOMAIN al THEN al
    ELSE [a \in DOMAIN al \cup {arg} |->
            IF a = arg THEN Cardinality(DOMAIN al) + 1 ELSE al[a]]

Scanning == pc = "disassemble" /\ op_addr < ByteLen(code)

\* lines 108-131 for an opcode below have_argument; the bytes of a run are
\* taken in one step
DisNoArg ==
    /\ Scanning
    /\ ByteAt(code, op_addr) < have_argument
    /\ LET op_code == ByteAt(code, op_addr)
           n == RunLeft(code, op_addr)
       IN  /\ addr_ops' = Append(addr_ops, <<op_addr, Run(opname(op_code), n)>>)
           /\ op_addr' = op_addr + n
    /\ ext_arg' = 0
    /\ UNCHANGED <<code, ci, addr_labels, ops, error, pc>>
    /\ UNCHANGED asmVars /\ UNCHANGED walkVars

\* lines 108-131 for an opcode with an argument
DisArg ==
    /\ Scanning
    /\ ByteAt(code, op_addr) >= have_argument
    /\ op_addr + 2 < ByteLen(code)
    /\ LET op_code == ByteAt(code, op_addr)
           a == ByteAt(code, op_addr + 1)
           b == ByteAt(code, op_addr + 2)
           arg0 == a + b * 256 + ext_arg
           arg1 == IF op_code \in hasjrel THEN arg0 + op_addr + 3 ELSE arg0
           labels == IF op_code \in hasjump
                     THEN SetDefault(addr_labels, arg1) ELSE addr_labels
           arg == IF op_code \in hasjump THEN LabelArg(labels[arg1]) ELSE IntArg(arg1)
       IN  /\ addr_labels' = labels
           /\ IF op_code = extended_arg
              THEN /\ ext_arg' = arg.val * 65536
                   /\ addr_ops' = Append(addr_ops, <<op_addr, NoneOp>>)
              ELSE /\ ext_arg' = 0
                   /\ addr_ops' = Append(addr_ops, <<op_addr, Op(opname(op_code), arg)>>)
    /\ op_addr' = op_addr + 3
    /\ UNCHANGED <<code, ci, ops, error, pc>>
    /\ UNCHANGED asmVars /\ UNCHANGED walkVars

\* lines 135-137 and 139-140 for a run of n ops that starts at address a:
\* the label of each address in it goes before the op of that address
RECURSIVE SpliceRun(_, _, _, _)
SpliceRun(al, a, n, op) ==
    LET here == IF a \in DOMAIN al THEN <<Label(al[a])>> ELSE <<>>
        inner == {t \in DOMAIN al : a < t /\ t < a + n}
    IN  IF inner = {}
        THEN here \o <<[op EXCEPT !.n = n]>>
        ELSE LET t == CHOOSE x \in inner : \A y \in inner : x <= y
             IN  here \o <<[op EXCEPT !.n = t - a]>> \o SpliceRun(al, t, n - (t - a), op)

\* lines 134-140: one entry of addr_ops
Splice(al, entry) ==
    LET a == entry[1]
        op == entry[2]
    IN  IF op.type = "None"
        THEN IF a \in DOMAIN al THEN <<Label(al[a])>> ELSE <<>>
        ELSE SpliceRun(al, a, op.n, op)

\* line 133: the scan is over
DisScanned ==
    /\ pc = "disassemble" /\ op_addr = ByteLen(code)
    /\ pc' = "splice"
    /\ ops' = <<>>
    /\ ci' = 1
    /\ UNCHANGED <<code, op_addr, ext_arg, addr_labels, addr_ops, error>>
    /\ UNCHANGED asmVars /\ UNCHANGED walkVars

\* lines 134-140
DisSplice ==
    /\ pc = "splice" /\ ci <= Len(addr_ops)
    /\ ops' = ops \o Splice(addr_labels, addr_ops[ci])
    /\ ci' = ci + 1
    /\ UNCHANGED <<code, op_addr, ext_arg, addr_labels, addr_ops, error, pc>>
    /\ UNCHANGED asmVars /\ UNCHANGED walkVars

\* line 142
DisReturn ==
    /\ pc = "splice" /\ ci > Len(addr_ops)
    /\ pc' = "disassembled"
    /\ UNCHANGED <<code, ci, op_addr, ext_arg, addr_labels, addr_ops, ops, error>>
    /\ UNCHANGED asmVars /\ UNCHANGED walkVars

\* assemble(disassemble(code)): the ops go to assemble as they are
Reassemble ==
    /\ pc = "disassembled"
    /\ pc' = "assemble"
    /\ UNCHANGED <<ops, error>>
    /\ UNCHANGED disVars /\ UNCHANGED asmVars /\ UNCHANGED walkVars

NextRoundTrip ==
    \/ DisNoArg
    \/ DisArg
    \/ DisScanned
    \/ DisSplice
    \/ DisReturn
    \/ Reassemble
    \/ NextAsm

(***************************************************************************)
(* Well-formed byte strings: a list of instructions, each jump aimed at    *)
(* the first byte of an instruction of the list (its EXTENDED_ARG, when it *)
(* has one), with an EXTENDED_ARG in front of exactly the arguments that   *)
(* do not fit 16 bits.  A relative argument counts from the address behind *)
(* the jump instruction.                                                   *)
(***************************************************************************)
\* NOP runs and jumps, with and without an EXTENDED_ARG.
JumpShapes ==
    {[k |-> "run", name |-> "NOP", n |-> n, arg |-> 0, ext |-> FALSE] :
        n \in CodeRuns}
    \cup {[k |-> "jump", name |-> nm, n |-> 1, arg |-> 0, ext |-> e] :
           nm \in {"JUMP_FORWARD", "JUMP_ABSOLUTE"}, e \in BOOLEAN}

\* The same and a LOAD_CONST whose argument needs an EXTENDED_ARG.
Shapes ==
    JumpShapes
    \cup {[k |-> "arg", name |-> "LOAD_CONST", n |-> 1, arg |-> 65543, ext |-> TRUE]}

Width(ins) == IF ins.k = "run" THEN ins.n ELSE IF ins.ext THEN 6 ELSE 3

RECURSIVE StartOf(_, _)
StartOf(prog, p) == IF p = 1 THEN 0 ELSE StartOf(prog, p - 1) + Width(prog[p - 1])

\* The argument that makes the jump at p go to the instruction at t.
JumpArg(prog, p, t) ==
    IF opmap[prog[p].name] \in hasjrel
    THEN StartOf(prog, t) - (StartOf(prog, p) + Width(prog[p]))
    ELSE StartOf(prog, t)

\* The instructions the jump at p can aim at: its argument is no negative
\* number, and it needs an EXTENDED_ARG exactly if the jump has one.
Targets(prog, p) ==
    {t \in 1..Len(prog) :
        /\ JumpArg(prog, p, t) >= 0
        /\ prog[p].ext <=> JumpArg(prog, p, t) >= 65536}

\* The choices of a target for every jump from p on (0 for the other
\* instructions).
RECURSIVE TargetSeqs(_, _)
TargetSeqs(prog, p) ==
    IF p > Len(prog) THEN {<<>>}
    ELSE {<<t>> \o rest :
            t \in (IF prog[p].k = "jump" THEN Targets(prog, p) ELSE {0}),
            rest \in TargetSeqs(prog, p + 1)}

InstrBytes(prog, tg, p) ==
    LET ins == prog[p]
        arg == IF ins.k = "jump" THEN JumpArg(prog, p, tg[p]) ELSE ins.arg
        low == arg % 65536
        high == arg \div 65536
    IN  IF ins.k = "run" THEN <<[b |-> opmap[ins.name], n |-> ins.n]>>
        ELSE (IF ins.ext
              THEN <<Byte(extended_arg), Byte(high % 256), Byte(high \div 256)>>
              ELSE <<>>)
             \o <<Byte(opmap[ins.name]), Byte(low % 256), Byte(low \div 256)>>

RECURSIVE ProgBytes(_, _, _)
ProgBytes(prog, tg, p) ==
    IF p > Len(prog) THEN <<>>
    ELSE InstrBytes(prog, tg, p) \o ProgBytes(prog, tg, p + 1)

\* disassemble(code) is called on a well-formed byte string made of the
\* instructions in shapes.
DisEntry(shapes) ==
    /\ \E len \in 1..MaxInstr :
           \E prog \in [1..len -> shapes] :
               \E tg \in TargetSeqs(prog, 1) : code = ProgBytes(prog, tg, 1)
    /\ ci = 1 /\ op_addr = 0 /\ ext_arg = 0
    /\ addr_labels = <<>> /\ addr_ops = <<>>
    /\ ops = <<>>
    /\ pc = "disassemble"
    /\ error = ""
    /\ AsmEntry /\ WalkIdle

InitRoundTrip == DisEntry(Shapes)

SpecRoundTrip == InitRoundTrip /\ [][NextRoundTrip]_vars

NextDisassemble ==
    \/ DisNoArg
    \/ DisArg
    \/ DisScanned
    \/ DisSplice
    \/ DisReturn

InitDisassemble == DisEntry(JumpShapes)

SpecDisassemble == InitDisassemble /\ [][NextDisassemble]_vars

(***************************************************************************)
(* blocks_from_ops and calculate_max_stack_depth                           *)
(***************************************************************************)
\* blocks_from_ops: the blocks in the order of their creation, so that block
\* b has next = b + 1 when there is one; label is 0 for the first block
\* (blocks[None]).  The dictionary lookup is BlockOf.
RECURSIVE blocks_from_ops(_)
blocks_from_ops(seq) ==
    IF seq = <<>> THEN <<[label |-> 0, ops |-> <<>>]>>
    ELSE LET bs == blocks_from_ops(SubSeq(seq, 1, Len(seq) - 1))
             op == seq[Len(seq)]
             last == bs[Len(bs)]
         IN  IF IsLabel(op)
             THEN Append(bs, [label |-> op.id, ops |-> <<>>])
             ELSE [bs EXCEPT ![Len(bs)] =
                       [last EXCEPT !.ops = Append(last.ops, op)]]

\* line 334: blocks[block]
BlockOf(label) == CHOOSE b \in 1..Len(blocks) : blocks[b].label = label

HasNext(b) == b < Len(blocks)

\* lines 343-345
StackEffect(op) ==
    LET effect == stackeffect[op.name]
    IN  IF effect.callable THEN effect.val - op.arg.val ELSE effect.val

IsJump(op) == opmap[op.name] \in hasjrel \/ opmap[op.name] \in hasjabs

Bit1(t) == t % 2 = 1
Bit2(t) == (t \div 2) % 2 = 1

\* line 336
PrunedFlipped(b, depth, sn, sd) == sn[b] \/ sd[b] <= depth
Pruned(b, depth, sn, sd) == sn[b] \/ sd[b] >= depth

\* lines 353-359: the depth the branch target is walked at; depth is the
\* depth behind the op's stack effect
TargetDepthUncorrected(op, depth, t) == depth
TargetDepth(op, depth, t) ==
    IF Bit1(t)
    THEN IF op.name = "FOR_ITER" THEN depth - 2
         ELSE IF op.name \in {"SETUP_FINALLY", "SETUP_EXCEPT"} THEN depth + 3
         ELSE depth
    ELSE depth

\* lines 362-364: the depth the rest of the block goes on with
FallDepth(op, depth, t) ==
    IF Bit2(t) /\ op.name \in {"JUMP_IF_TRUE_OR_POP", "JUMP_IF_FALSE_OR_POP"}
    THEN depth - 1
    ELSE depth

Max(a, b) == IF a >= b THEN a ELSE b

Top == stack[Len(stack)]
TopOps == blocks[Top.block].ops
Walking(phase) == pc = "walk" /\ stack # <<>> /\ Top.phase = phase

\* A walk returns: its activation goes, and the caller goes on behind its
\* call (lines 366-368 and 372-376).
Return(stk) ==
    LET rest == SubSeq(stk, 1, Len(stk) - 1)
    IN  IF rest = <<>> THEN rest
        ELSE LET caller == rest[Len(rest)]
                 op == blocks[caller.block].ops[caller.k]
             IN  [rest EXCEPT ![Len(rest)] =
                    IF caller.phase = "fell" THEN [caller EXCEPT !.phase = "exit"]
                    ELSE IF op.name \in {"JUMP_ABSOLUTE", "JUMP_FORWARD"}
                         THEN [caller EXCEPT !.phase = "exit"]
                         ELSE [caller EXCEPT !.phase = "loop", !.k = caller.k + 1]]

Returned(stk) == IF Return(stk) = <<>> THEN "walked" ELSE "walk"

\* lines 336-337
WalkPrune ==
    /\ Walking("call")
    /\ Pruned(Top.block, Top.depth, seen, startdepth)
    /\ stack' = Return(stack)
    /\ pc' = Returned(stack)
    /\ UNCHANGED <<traits, blocks, seen, startdepth, max_depth, ops, error>>
    /\ UNCHANGED disVars /\ UNCHANGED asmVars

\* lines 339-340
WalkEnter ==
    /\ Walking("call")
    /\ ~Pruned(Top.block, Top.depth, seen, startdepth)
    /\ seen' = [seen EXCEPT ![Top.block] = TRUE]
    /\ startdepth' = [startdepth EXCEPT ![Top.block] = Top.depth]
    /\ stack' = [stack EXCEPT ![Len(stack)] = [Top EXCEPT !.phase = "loop", !.k = 1]]
    /\ UNCHANGED <<traits, blocks, max_depth, ops, error, pc>>
    /\ UNCHANGED disVars /\ UNCHANGED asmVars

\* lines 343-352 and 367 for an op that is no jump
WalkOp ==
    /\ Walking("loop") /\ Top.k <= Len(TopOps)
    /\ ~IsJump(TopOps[Top.k])
    /\ LET op == TopOps[Top.k]
           depth == Top.depth + StackEffect(op) * op.n
       IN  /\ max_depth' = Max(max_depth, Max(Top.depth + StackEffect(op), depth))
           /\ stack' = [stack EXCEPT ![Len(stack)] =
                            [Top EXCEPT !.depth = depth, !.k = Top.k + 1]]
    /\ UNCHANGED <<traits, blocks, seen, startdepth, ops, error, pc>>
    /\ UNCHANGED disVars /\ UNCHANGED asmVars

\* lines 343-366 for a jump: the branch target is walked first
WalkJump ==
    /\ Walking("loop") /\ Top.k <= Len(TopOps)
    /\ IsJump(TopOps[Top.k])
    /\ LET op == TopOps[Top.k]
           depth == Top.depth + StackEffect(op)
           target_depth == TargetDepth(op, depth, traits)
       IN  /\ max_depth' =
                  IF Bit1(traits) /\ op.name \in {"SETUP_FINALLY", "SETUP_EXCEPT"}
                  THEN Max(Max(max_depth, depth), target_depth)
                  ELSE Max(max_depth, depth)
           /\ stack' = Append(
                  [stack EXCEPT ![Len(stack)] =
                      [Top EXCEPT !.depth = FallDepth(op, depth, traits),
                                  !.phase = "jumped"]],
                  [block |-> BlockOf(op.arg.val), k |-> 1,
                   depth |-> target_depth, phase |-> "call"])
    /\ UNCHANGED <<traits, blocks, seen, startdepth, ops, error, pc>>
    /\ UNCHANGED disVars /\ UNCHANGED asmVars

\* lines 370-372: the for loop ran to its end
WalkNext ==
    /\ Walking("loop") /\ Top.k > Len(TopOps)
    /\ stack' =
           IF HasNext(Top.block)
           THEN Append([stack EXCEPT ![Len(stack)] = [Top EXCEPT !.phase = "fell"]],
                       [block |-> Top.block + 1, k |-> 1,
                        depth |-> Top.depth, phase |-> "call"])
           ELSE [stack EXCEPT ![Len(stack)] = [Top EXCEPT !.phase = "exit"]]
    /\ UNCHANGED <<traits, blocks, seen, startdepth, max_depth, ops, error, pc>>
    /\ UNCHANGED disVars /\ UNCHANGED asmVars

\* lines 374-376
WalkLeave ==
    /\ Walking("exit")
    /\ seen' = [seen EXCEPT ![Top.block] = FALSE]
    /\ stack' = Return(stack)
    /\ pc' = Returned(stack)
    /\ UNCHANGED <<traits, blocks, startdepth, max_depth, ops, error>>
    /\ UNCHANGED disVars /\ UNCHANGED asmVars

\* The elements of the sequences given to calculate_max_stack_depth.
DepthElems ==
    {Label(l) : l \in DepthLabels}
        \cup {Op("LOAD_CONST", IntArg(0)), Op("BUILD_TUPLE", IntArg(2))}
        \cup {Op(name, LabelArg(l)) :
                name \in {"JUMP_ABSOLUTE", "POP_JUMP_IF_FALSE", "FOR_ITER",
                          "SETUP_FINALLY", "JUMP_IF_TRUE_OR_POP"},
                l \in DepthLabels}

NextDepth ==
    \/ WalkPrune
    \/ WalkEnter
    \/ WalkOp
    \/ WalkJump
    \/ WalkNext
    \/ WalkLeave

\* calculate_max_stack_depth(ops, py_internals) up to the call of walk() in
\* line 378: the blocks are built (line 318), the markers of every block are
\* reset (lines 320-324), walk starts at block None with depth 0 and
\* max_depth 0.
InitDepth ==
    /\ \E s \in {q \in SeqsUpTo(DepthElems, MaxDepthOps) :
                    LabelsOnce(q) /\ StructurallyValid(q)} :
           /\ ops = s
           /\ blocks = blocks_from_ops(s)
           /\ seen = [b \in 1..Len(blocks_from_ops(s)) |-> FALSE]
           /\ startdepth = [b \in 1..Len(blocks_from_ops(s)) |-> -1]
    /\ traits \in {0, 3}
    /\ stack = <<[block |-> 1, k |-> 1, depth |-> 0, phase |-> "call"]>>
    /\ max_depth = 0
    /\ pc = "walk"
    /\ error = ""
    /\ AsmEntry /\ DisIdle

SpecDepth == InitDepth /\ [][NextDepth]_vars

\* walk is a sequential program: it takes its next step as long as it has one
FairSpecDepth == SpecDepth /\ WF_vars(NextDepth)

(***************************************************************************)
(* Properties of assemble.                                                 *)
(***************************************************************************)
PosOf(l, seq) == CHOOSE p \in 1..Len(seq) : IsLabel(seq[p]) /\ seq[p].id = l

\* Every relative jump has its label behind it: the other direction has no
\* encoding, a relative argument being an unsigned distance.
RelJumpsForward(seq) ==
    \A p \in 1..Len(seq) :
        (/\ ~IsLabel(seq[p])
         /\ seq[p].arg.kind = "label"
         /\ opmap[seq[p].name] \in hasjrel
         /\ InOps(seq[p].arg.val, seq)) => PosOf(seq[p].arg.val, seq) > p

\* The 16-bit little-endian argument held by the two bytes at offsets k, k+1.
ArgAt(bytes, k) == ByteAt(bytes, k) + 256 * ByteAt(bytes, k + 1)

\* The instruction assemble emitted for the op at position p of the final
\* pass, read back from the output: the address of its opcode byte (behind
\* the EXTENDED_ARG, when one was emitted) and its full argument.
Emitted(p) ==
    LET at == steps[p][2]
        ext == ByteAt(output, at) = extended_arg
    IN  [opcode_at |-> IF ext THEN at + 3 ELSE at,
         arg |-> IF ext
                 THEN 65536 * ArgAt(output, at + 1) + ArgAt(output, at + 4)
                 ELSE ArgAt(output, at + 1),
         ext |-> ext]

IsRelJump(e) ==
    ~IsLabel(e) /\ e.arg.kind = "label" /\ opmap[e.name] \in hasjrel

\* C2: for every structurally valid sequence (relative jumps pointing
\* forward, as they must to be encodable) the pass loop of assemble ends by
\* returning: it never ends in an exception.
C2_AssembleReturns ==
    (StructurallyValid(ops) /\ RelJumpsForward(ops)) => pc # "raised"

\* C3: when assemble returns, the address counter equalled the length of
\* the emitted output before every element of the final pass and at its
\* end (so no jump was skipped as unresolved), and the address recorded for
\* every Label element is the number of output bytes before that element.
C3_SelfConsistentAddresses ==
    pc = "returned" =>
        /\ Len(steps) = Len(ops)
        /\ address = ByteLen(output)
        /\ \A p \in 1..Len(ops) :
               /\ steps[p][1] = steps[p][2]
               /\ IsLabel(ops[p]) =>
                      /\ ops[p].id \in DOMAIN label_address
                      /\ label_address[ops[p].id] = steps[p][2]

\* assemble returned after a pass that moved a label behind an EXTENDED_ARG
C3_Witness ==
    /\ pc = "returned" /\ passes >= 3
    /\ \E p \in 1..Len(ops) : IsLabel(ops[p]) /\ label_address[ops[p].id] > 65536
    /\ \E k \in 1..Len(output) : output[k].b = extended_arg

\* The sequences C4 is about: some op has an argument on a no-argument
\* opcode, none on an argument-taking opcode, a plain integer on a jump
\* opcode, a Label on a non-jump opcode, or a Label that is no element.
IllFormed(seq) ==
    \E p \in 1..Len(seq) :
        /\ ~IsLabel(seq[p])
        /\ LET op_code == opmap[seq[p].name]
               arg == seq[p].arg
           IN  \/ arg.kind # "none" /\ op_code < have_argument
               \/ arg.kind = "none" /\ op_code >= have_argument
               \/ arg.kind = "int" /\ op_code \in hasjump
               \/ arg.kind = "label" /\ op_code \notin hasjump
               \/ arg.kind = "label" /\ ~InOps(arg.val, seq)

\* C4: a sequence holding an ill-formed op (argument on a no-argument
\* opcode, none on an argument-taking one, integer on a jump, Label on a
\* non-jump, Label that is no element of the sequence) never gets through
\* the first pass: assemble is still in the for loop of pass 1 or has
\* raised there, and it returns nothing.
C4_StructuralRejection ==
    IllFormed(ops) =>
        /\ passes = 1
        /\ i <= Len(ops)
        /\ pc \in {"assemble", "raised"}
        /\ pc = "assemble" => ENABLED NextAsm

\* the ValueError for a Label that is no element, raised behind other ops
C4_Witness ==
    /\ pc = "raised" /\ passes = 1 /\ i > 2
    /\ error = "label is not part of this op list"

\* C7: within one call of assemble the address recorded for a Label is
\* never removed and never decreases: a step that changes it raises it.
C7_MonotoneLabelAddresses ==
    [][\A l \in DOMAIN label_address :
           /\ l \in DOMAIN label_address'
           /\ label_address'[l] >= label_address[l]]_vars

\* a third pass was needed: the second one moved a label it already knew
C7_Witness ==
    /\ passes >= 3
    /\ \E l \in DOMAIN label_address : label_address[l] >= 65536

\* C8: every argument handed to encode_op is absent or lies in 0..65535
\* (checked for sequences whose relative jumps point forward).
C8_EncoderArgumentsFit ==
    RelJumpsForward(ops) =>
        \A k \in 1..Len(encoded) :
            encoded[k][2].kind = "none" \/ encoded[k][2].val \in 0..65535

\* C9: in the bytes assemble returns, the full argument of every relative
\* jump plus the address just behind the jump instruction is the address
\* of its label.
C9_RelativeJumpArgument ==
    pc = "returned" =>
        \A p \in 1..Len(ops) :
            IsRelJump(ops[p]) =>
                Emitted(p).arg + Emitted(p).opcode_at + 3
                    = label_address[ops[p].arg.val]

(***************************************************************************)
(* Properties of disassemble.                                              *)
(***************************************************************************)
\* C1: assemble(disassemble(B)) returns, and returns exactly B, for every
\* well-formed byte string B.
C1_RoundTrip ==
    pc \in {"returned", "raised"} =>
        /\ pc = "returned"
        /\ SameBytes(output, code)

\* The jump instructions found by the scan: their entries in addr_ops.
JumpEntries ==
    {k \in 1..Len(addr_ops) :
        addr_ops[k][2].type = "Op" /\ addr_ops[k][2].arg.kind = "label"}

\* The address the jump instruction of entry k goes to, read from the bytes:
\* its 16-bit argument, the argument of the EXTENDED_ARG in front of it as
\* the high bits, counted from the address behind the instruction when the
\* jump is relative.
TargetAddress(k) ==
    LET a == addr_ops[k][1]
        low == ArgAt(code, a + 1)
        high == IF k > 1 /\ addr_ops[k - 1][2].type = "None"
                THEN ArgAt(code, addr_ops[k - 1][1] + 1) ELSE 0
        arg == 65536 * high + low
    IN  IF opmap[addr_ops[k][2].name] \in hasjrel THEN arg + a + 3 ELSE arg

\* The ops of a sequence without its labels.
RECURSIVE OpsOf(_)
OpsOf(seq) ==
    IF seq = <<>> THEN <<>>
    ELSE IF IsLabel(seq[1]) THEN OpsOf(Tail(seq))
    ELSE <<seq[1]>> \o OpsOf(Tail(seq))

\* The addresses of the instructions of a byte string, in order.
RECURSIVE InstrAddresses(_, _)
InstrAddresses(bytes, a) ==
    IF a >= ByteLen(bytes) THEN <<>>
    ELSE LET b == ByteAt(bytes, a)
             w == IF b < have_argument THEN RunLeft(bytes, a)
                  ELSE IF b = extended_arg THEN 6 ELSE 3
         IN  <<a>> \o InstrAddresses(bytes, a + w)

\* C5: in the output of disassemble (for a well-formed byte string) two
\* jumps reference the same Label exactly if they go to the same address,
\* and the Label of a jump is an element of the output exactly once, right
\* in front of the op of the instruction at the address the jump goes to.
C5_LabelUniqueness ==
    pc = "disassembled" =>
        /\ \A k1, k2 \in JumpEntries :
               (TargetAddress(k1) = TargetAddress(k2))
                   <=> (addr_ops[k1][2].arg.val = addr_ops[k2][2].arg.val)
        /\ \A k \in JumpEntries :
               \E p \in 1..(Len(ops) - 1) :
                   /\ IsLabel(ops[p]) /\ ops[p].id = addr_ops[k][2].arg.val
                   /\ \A q \in 1..Len(ops) :
                          (IsLabel(ops[q]) /\ ops[q].id = ops[p].id) => q = p
                   /\ ~IsLabel(ops[p + 1])
                   /\ InstrAddresses(code, 0)[Len(OpsOf(SubSeq(ops, 1, p + 1)))]
                          = TargetAddress(k)
        /\ \A k \in JumpEntries :
               \E p \in 1..Len(ops) : ops[p] = addr_ops[k][2]

\* two jumps with one target and a third jump with another one
C5_Witness ==
    /\ pc = "disassembled"
    /\ \E k1, k2, k3 \in JumpEntries :
           /\ k1 # k2
           /\ addr_ops[k1][2].arg.val = addr_ops[k2][2].arg.val
           /\ addr_ops[k3][2].arg.val # addr_ops[k1][2].arg.val
           /\ TargetAddress(k1) >= 65536

(***************************************************************************)
(* Properties of calculate_max_stack_depth.                                *)
(***************************************************************************)
Min(a, b) == IF a <= b THEN a ELSE b

\* The stack depth along the elements from..to of seq, taken one after the
\* other from depth d: the depth behind them, and the highest and the lowest
\* depth on the way.
RECURSIVE Along(_, _, _, _, _)
Along(seq, from, to, d, t) ==
    IF from > to THEN [depth |-> d, peak |-> d, low |-> d]
    ELSE IF IsLabel(seq[from]) THEN Along(seq, from + 1, to, d, t)
    ELSE LET e == d + StackEffect(seq[from])
             rest == Along(seq, from + 1, to, FallDepth(seq[from], e, t), t)
         IN  [depth |-> rest.depth,
              peak |-> Max(Max(d, e), rest.peak),
              low |-> Min(Min(d, e), rest.low)]

\* The jumps of seq whose label stands in front of them.
BackJumps(seq) ==
    {j \in 1..Len(seq) :
        /\ ~IsLabel(seq[j]) /\ IsJump(seq[j])
        /\ PosOf(seq[j].arg.val, seq) < j}

FirstJump(seq, j) == \A p \in 1..(j - 1) : IsLabel(seq[p]) \/ ~IsJump(seq[p])

\* The loop closed by the backward jump at j, taken from the entry of the
\* sequence at depth 0: the way to the jump, the jump, and the body once more.
Loop(seq, j, t) ==
    LET l == PosOf(seq[j].arg.val, seq)
        first == Along(seq, 1, j - 1, 0, t)
        entry == Along(seq, 1, l, 0, t).depth
        jump1 == first.depth + StackEffect(seq[j])
        back1 == TargetDepth(seq[j], jump1, t)
        second == Along(seq, l + 1, j - 1, back1, t)
        jump2 == second.depth + StackEffect(seq[j])
    IN  [once |-> Max(first.peak, Max(jump1, back1)),
         twice |-> Max(Max(first.peak, Max(jump1, back1)), Max(second.peak, jump2)),
         low |-> Min(first.low, jump1),
         net |-> back1 - entry]

AtForIter ==
    /\ Walking("loop") /\ Top.k <= Len(TopOps)
    /\ TopOps[Top.k].name = "FOR_ITER"
    /\ Bit1(traits)

\* C10 as claimed: the branch target of a FOR_ITER is walked at the depth
\* behind the stack effect of the FOR_ITER, and the rest of the block goes
\* on at a lower depth.
C10_PopsOnFallThrough ==
    [][AtForIter =>
          /\ stack'[Len(stack')].depth = Top.depth + StackEffect(TopOps[Top.k])
          /\ stack'[Len(stack)].depth < Top.depth + StackEffect(TopOps[Top.k])]_vars

\* C10, amended: the branch target of a FOR_ITER is walked two below the
\* depth behind the stack effect of the FOR_ITER, and the rest of the block
\* goes on at the depth behind the stack effect.
C10_PopsOnBranch ==
    [][AtForIter =>
          /\ Len(stack') = Len(stack) + 1
          /\ stack'[Len(stack')].phase = "call"
          /\ stack'[Len(stack')].block = BlockOf(TopOps[Top.k].arg.val)
          /\ stack'[Len(stack')].depth = Top.depth + StackEffect(TopOps[Top.k]) - 2
          /\ stack'[Len(stack)].depth = Top.depth + StackEffect(TopOps[Top.k])]_vars

\* walk has just called itself for the target of a FOR_ITER, corrections enabled
C10_Witness ==
    /\ pc = "walk" /\ Len(stack) >= 2 /\ Bit1(traits)
    /\ Top.phase = "call"
    /\ stack[Len(stack) - 1].phase = "jumped"
    /\ LET caller == stack[Len(stack) - 1]
       IN  /\ blocks[caller.block].ops[caller.k].name = "FOR_ITER"
           /\ Top.depth = caller.depth - 2
           /\ Top.depth >= 1

====
